---- MODULE Spec2Model ----
(***************************************************************************)
(* Quiz progression and answer scoring of Nyhetsjeger: the quiz catalog,   *)
(* the question bank with its arrangement trigger, the answer ledger       *)
(* (table user_answers) and the HTTP handlers that read and write them.    *)
(* Handlers that make more than one persistence round trip are split into  *)
(* one step per round trip, so that concurrent requests interleave.        *)
(***************************************************************************)
EXTENDS Integers, FiniteSets, Sequences, Bags, TLC

\* ---------------------------------------------------------------- bounds
MaxQuestions == 4   \* rows the questions table may hold
MaxAnswers == 2     \* rows the user_answers table may hold
MaxInFlight == 2    \* requests served at the same time
MaxTime == 3        \* the clock runs 0..MaxTime
MaxQuizzes == 3     \* rows the quizzes table may hold

Users == {1, 2}
QuizIDs == {1, 2}
NoID == 0           \* an id that resolves to no row

\* ---------------------------------------------------------------- state
VARIABLES
    users,          \* table users: the ids of its rows
    quizzes,        \* table quizzes: id -> row
    questions,      \* table questions: set of rows
    user_answers,   \* table user_answers: bag of rows (the table has no unique key but its id)
    now,            \* the clock
    answering,      \* bag of postUserAnswer requests between their check and their insert
    inserting,      \* bag of question rows between the trigger and the insert
    resp,           \* the exchange that finished last: ids of the request, the response
    completed       \* <<user, quiz, n>>: the user was told ErrNoMoreQuestions when the quiz had n questions

vars == <<users, quizzes, questions, user_answers, now, answering, inserting, resp, completed>>

\* ---------------------------------------------------------------- fixtures
\* Points of a question created through the dashboard.
DefaultPoints == 10

\* The alternatives of the question bank. Questions 1 and 2 are those of the
\* two-question quiz, question 3 belongs to the other quiz; questions created
\* through the dashboard have no alternatives.
answer_alternatives ==
    { [id |-> 1, question_id |-> 1, correct |-> TRUE],
      [id |-> 2, question_id |-> 1, correct |-> FALSE],
      [id |-> 3, question_id |-> 2, correct |-> FALSE],
      [id |-> 4, question_id |-> 2, correct |-> TRUE],
      [id |-> 5, question_id |-> 3, correct |-> TRUE],
      [id |-> 6, question_id |-> 3, correct |-> FALSE] }

AlternativeIDs == { a.id : a \in answer_alternatives }

SeedQuestions ==
    { [id |-> 1, quiz_id |-> 1, arrangement |-> 1, points |-> 5],
      [id |-> 2, quiz_id |-> 1, arrangement |-> 2, points |-> 10],
      [id |-> 3, quiz_id |-> 2, arrangement |-> 1, points |-> 10] }

\* Title and image of a quiz made by CreateDefaultQuiz, the title and the
\* image an administrator submits, and the image column set to NULL.
DefaultTitle == "Quiz: Uke"
DefaultImage == "Question_mark_choice.jpg"
FormTitle == "Nyhetsquiz"
NoImage == "NULL"

\* The clock counts days; CreateDefaultQuiz adds 24 * 7 hours.
Week == 7

\* The times an administrator submits for the window of a quiz.
FormTimes == {0, MaxTime}

SeedQuizzes ==
    [ q \in QuizIDs |->
        [ title |-> DefaultTitle, image_url |-> DefaultImage,
          published |-> TRUE, is_deleted |-> FALSE,
          available_from |-> q - 1, available_to |-> q + 1 ] ]

NoResp ==
    [ op |-> "none", outcome |-> "none", status |-> 0, quiz |-> NoID, open |-> NoID,
      question |-> NoID, alternative |-> NoID, is_correct |-> FALSE,
      points |-> 0, max_points |-> 0, position |-> 0, total |-> 0 ]

\* ---------------------------------------------------------------- tables
QuestionIDs == { q.id : q \in questions }

QuestionByID(id) == CHOOSE q \in questions : q.id = id

AlternativeByID(id) == CHOOSE a \in answer_alternatives : a.id = id

QuestionsOfQuiz(quiz) == { q \in questions : q.quiz_id = quiz }

Max(S) == CHOOSE x \in S : \A y \in S : y <= x

\* The join taken on the wrong column: the row's alternative id is compared
\* with the question id.
AnswerRows_WrongJoin(ledger, u, qid) ==
    LET rows == { r \in BagToSet(ledger) : r.user_id = u /\ r.answer_alternative_id = qid }
        RECURSIVE Sum(_)
        Sum(S) == IF S = {} THEN 0
                  ELSE LET r == CHOOSE x \in S : TRUE
                       IN  CopiesIn(r, ledger) + Sum(S \ {r})
    IN  Sum(rows)

\* Number of ledger rows of a user for a question: user_answers joined to
\* answer_alternatives on answer_alternative_id.
AnswerRows(ledger, u, qid) ==
    LET rows == { r \in BagToSet(ledger) :
                    /\ r.user_id = u
                    /\ \E a \in answer_alternatives :
                          a.id = r.answer_alternative_id /\ a.question_id = qid }
        RECURSIVE Sum(_)
        Sum(S) == IF S = {} THEN 0
                  ELSE LET r == CHOOSE x \in S : TRUE
                       IN  CopiesIn(r, ledger) + Sum(S \ {r})
    IN  Sum(rows)

\* ---------------------------------------------------------------- Init
Init ==
    /\ users = Users
    /\ quizzes = SeedQuizzes
    /\ questions = SeedQuestions
    /\ user_answers = EmptyBag
    /\ now = 0
    /\ answering = EmptyBag
    /\ inserting = EmptyBag
    /\ resp = NoResp
    /\ completed = {}

\* ---------------------------------------------------------------- quiz catalog
\* The lookup without the is_deleted filter.
GetQuizByID_IncludingDeleted(id) ==
    IF id \in DOMAIN quizzes
    THEN [found |-> TRUE, id |-> id]
    ELSE [found |-> FALSE, id |-> NoID]

\* GetQuizByID: the row, unless it is missing or soft-deleted.
GetQuizByID(id) ==
    IF id \in DOMAIN quizzes /\ ~quizzes[id].is_deleted
    THEN [found |-> TRUE, id |-> id]
    ELSE [found |-> FALSE, id |-> NoID]

\* The flag inverted instead of set: deleting a deleted quiz brings it back.
DeleteQuizByID_Toggling(id) ==
    IF id \in DOMAIN quizzes
    THEN [quizzes EXCEPT ![id].is_deleted = ~quizzes[id].is_deleted]
    ELSE quizzes

\* DeleteQuizByID: UPDATE quizzes SET is_deleted = true WHERE id = $1.
DeleteQuizByID(id) ==
    IF id \in DOMAIN quizzes
    THEN [quizzes EXCEPT ![id].is_deleted = TRUE]
    ELSE quizzes

\* ---------------------------------------------------------------- progression
\* The questions in descending order of arrangement.
RECURSIVE SortByArrangement_Descending(_)
SortByArrangement_Descending(S) ==
    IF S = {} THEN <<>>
    ELSE LET m == CHOOSE q \in S : \A r \in S : q.arrangement >= r.arrangement
         IN  <<m>> \o SortByArrangement_Descending(S \ {m})

RECURSIVE SortByArrangement(_)
SortByArrangement(S) ==
    IF S = {} THEN <<>>
    ELSE LET m == CHOOSE q \in S : \A r \in S : q.arrangement <= r.arrangement
         IN  <<m>> \o SortByArrangement(S \ {m})

\* The questions of the quiz the user has a ledger row for.
AnsweredQuestionIDs(u, quiz) ==
    { q.id : q \in { r \in QuestionsOfQuiz(quiz) : AnswerRows(user_answers, u, r.id) > 0 } }

RECURSIVE FirstUnanswered(_, _, _)
FirstUnanswered(qs, answered, i) ==
    IF i > Len(qs) THEN 0
    ELSE IF qs[i].id \notin answered THEN i
    ELSE FirstUnanswered(qs, answered, i + 1)

NextQuestionInQuiz(u, quiz) ==
    IF ~GetQuizByID(quiz).found
    THEN [outcome |-> "ErrNoSuchQuiz", question |-> NoID, position |-> 0, total |-> 0]
    ELSE LET qs == SortByArrangement(QuestionsOfQuiz(quiz))
             i  == FirstUnanswered(qs, AnsweredQuestionIDs(u, quiz), 1)
         IN  IF i = 0
             THEN [outcome |-> "ErrNoMoreQuestions", question |-> NoID,
                   position |-> 0, total |-> Len(qs)]
             ELSE [outcome |-> "ok", question |-> qs[i].id,
                   position |-> i, total |-> Len(qs)]

\* The handler recording the question it presents as answered.
getNextQuestion_MarksPresented(u, quiz) ==
    LET r == NextQuestionInQuiz(u, quiz)
        alts == { a.id : a \in { b \in answer_alternatives : b.question_id = r.question } }
    IN  /\ resp' = [NoResp EXCEPT !.op = "getNextQuestion", !.outcome = r.outcome,
                        !.status = IF r.outcome = "ok" THEN 200 ELSE 404,
                        !.quiz = quiz, !.question = r.question,
                        !.position = r.position, !.total = r.total]
        /\ completed' = IF r.outcome = "ErrNoMoreQuestions"
                         THEN completed \cup {<<u, quiz, r.total>>} ELSE completed
        /\ user_answers' = IF r.outcome = "ok" /\ alts # {}
                               /\ BagCardinality(user_answers) < MaxAnswers
                            THEN user_answers (+) SetToBag({[user_id |-> u,
                                      answer_alternative_id |-> Max(alts)]})
                            ELSE user_answers
        /\ UNCHANGED <<users, quizzes, questions, now, answering, inserting>>

\* getNextQuestion: both errors of the progression engine become 404.
getNextQuestion(u, quiz) ==
    LET r == NextQuestionInQuiz(u, quiz)
    IN  /\ resp' = [NoResp EXCEPT !.op = "getNextQuestion", !.outcome = r.outcome,
                        !.status = IF r.outcome = "ok" THEN 200 ELSE 404,
                        !.quiz = quiz, !.question = r.question,
                        !.position = r.position, !.total = r.total]
        /\ completed' = IF r.outcome = "ErrNoMoreQuestions"
                         THEN completed \cup {<<u, quiz, r.total>>} ELSE completed
        /\ UNCHANGED <<users, quizzes, questions, user_answers, now, answering, inserting>>

\* ---------------------------------------------------------------- scoring
\* The precondition of an answer: the question and the alternative exist and
\* the alternative is one of the question's.
AnswerError(qid, aid) ==
    IF qid \notin QuestionIDs THEN "not_found"
    ELSE IF aid \notin AlternativeIDs THEN "not_found"
    ELSE IF AlternativeByID(aid).question_id # qid THEN "validation"
    ELSE "none"

\* Question.IsAnswerCorrect: the alternative is the question's correct one.
IsAnswerCorrect(qid, aid) ==
    \E a \in answer_alternatives : a.question_id = qid /\ a.id = aid /\ a.correct

PointsAwarded(qid, aid) ==
    IF IsAnswerCorrect(qid, aid) THEN QuestionByID(qid).points ELSE 0

\* The existence check of AnswerQuestion.
IsQuestionAnswered(ledger, u, qid) == AnswerRows(ledger, u, qid) > 0

\* An insert that replaces the rows the user already has.
InsertUserAnswer_Replacing(ledger, u, aid) ==
    LET others == { r \in BagToSet(ledger) : r.user_id # u }
    IN  [ r \in others \cup {[user_id |-> u, answer_alternative_id |-> aid]} |->
            IF r \in others THEN CopiesIn(r, ledger) ELSE 1 ]

\* INSERT INTO user_answers: the table has a primary key on its own id only,
\* so every insert stores a row.
InsertUserAnswer(ledger, u, aid) ==
    ledger (+) SetToBag({[user_id |-> u, answer_alternative_id |-> aid]})

InFlight == BagCardinality(answering) + BagCardinality(inserting)

\* The answered question AnswerQuestion and AnswerQuestionGuest return.
Answered(qid, aid) ==
    [ Question |-> QuestionByID(qid), ChosenAnswerID |-> aid,
      PointsAwarded |-> PointsAwarded(qid, aid) ]

\* FeedbackButtons(answered): what postUserAnswer renders for an accepted answer.
Feedback(op, answered) ==
    [NoResp EXCEPT !.op = op, !.outcome = "ok", !.status = 200,
                   !.question = answered.Question.id,
                   !.alternative = answered.ChosenAnswerID,
                   !.is_correct = IsAnswerCorrect(answered.Question.id, answered.ChosenAnswerID),
                   !.points = answered.PointsAwarded,
                   !.max_points = answered.Question.points]

Failure(op, outcome, status) ==
    [NoResp EXCEPT !.op = op, !.outcome = outcome, !.status = status]

\* The handler without the mapping: every error is returned as it is.
postUserAnswerStatus_Unmapped(err) == 500

\* postUserAnswer's error mapping: the conflict becomes 409, any other error is
\* returned as it is.
postUserAnswerStatus(err) ==
    IF err = "ErrQuestionAlreadyAnswered" THEN 409 ELSE 500

\* The first round trip without the cross-reference check: an alternative of
\* another question is let through.
postUserAnswerCheck_NoCrossCheck(u, qid, aid) ==
    LET err == IF qid \notin QuestionIDs \/ aid \notin AlternativeIDs
               THEN "not_found" ELSE "none"
    IN  /\ InFlight < MaxInFlight
        /\ (err = "none" /\ ~IsQuestionAnswered(user_answers, u, qid))
              => BagCardinality(user_answers) + BagCardinality(answering) < MaxAnswers
        /\ IF err # "none"
           THEN /\ resp' = Failure("postUserAnswer", err, postUserAnswerStatus(err))
                /\ UNCHANGED answering
           ELSE IF IsQuestionAnswered(user_answers, u, qid)
           THEN /\ resp' = Failure("postUserAnswer", "ErrQuestionAlreadyAnswered",
                                   postUserAnswerStatus("ErrQuestionAlreadyAnswered"))
                /\ UNCHANGED answering
           ELSE /\ answering' = answering (+)
                       SetToBag({[user |-> u, question |-> qid, alternative |-> aid]})
                /\ UNCHANGED resp
        /\ UNCHANGED <<users, quizzes, questions, user_answers, now, inserting, completed>>

\* postUserAnswer, first round trip: AnswerQuestion validates the ids and
\* looks the (user, question) pair up in the ledger.
postUserAnswerCheck(u, qid, aid) ==
    /\ InFlight < MaxInFlight
    /\ (AnswerError(qid, aid) = "none" /\ ~IsQuestionAnswered(user_answers, u, qid))
          => BagCardinality(user_answers) + BagCardinality(answering) < MaxAnswers
    /\ IF AnswerError(qid, aid) # "none"
       THEN /\ resp' = Failure("postUserAnswer", AnswerError(qid, aid),
                               postUserAnswerStatus(AnswerError(qid, aid)))
            /\ UNCHANGED answering
       ELSE IF IsQuestionAnswered(user_answers, u, qid)
       THEN /\ resp' = Failure("postUserAnswer", "ErrQuestionAlreadyAnswered",
                               postUserAnswerStatus("ErrQuestionAlreadyAnswered"))
            /\ UNCHANGED answering
       ELSE /\ answering' = answering (+)
                   SetToBag({[user |-> u, question |-> qid, alternative |-> aid]})
            /\ UNCHANGED resp
    /\ UNCHANGED <<users, quizzes, questions, user_answers, now, inserting, completed>>

\* The feedback rendered without the row being stored.
postUserAnswerInsert_NoWrite(r) ==
    /\ BagIn(r, answering)
    /\ user_answers' = user_answers
    /\ resp' = Feedback("postUserAnswer", Answered(r.question, r.alternative))
    /\ answering' = answering (-) SetToBag({r})
    /\ UNCHANGED <<users, quizzes, questions, now, inserting, completed>>

\* postUserAnswer, second round trip: AnswerQuestion inserts the row and the
\* handler renders the feedback. The insert fails when the user's row is gone
\* (user_id REFERENCES users).
postUserAnswerInsert(r) ==
    /\ BagIn(r, answering)
    /\ IF r.user \in users
       THEN /\ user_answers' = InsertUserAnswer(user_answers, r.user, r.alternative)
            /\ resp' = Feedback("postUserAnswer", Answered(r.question, r.alternative))
       ELSE /\ user_answers' = user_answers
            /\ resp' = Failure("postUserAnswer", "foreign_key",
                               postUserAnswerStatus("foreign_key"))
    /\ answering' = answering (-) SetToBag({r})
    /\ UNCHANGED <<users, quizzes, questions, now, inserting, completed>>

\* DELETE FROM users WHERE id = $1: user_answers.user_id is declared
\* REFERENCES users(id) ON DELETE CASCADE, so the user's ledger rows go with it.
deleteUserRow(u) ==
    /\ u \in users
    /\ users' = users \ {u}
    /\ user_answers' =
          LET kept == { r \in BagToSet(user_answers) : r.user_id # u }
          IN  [ r \in kept |-> CopiesIn(r, user_answers) ]
    /\ UNCHANGED <<quizzes, questions, now, answering, inserting, resp, completed>>

\* ---------------------------------------------------------------- question bank
\* The trigger without its WHERE clause: the largest arrangement of any quiz.
set_question_arrangement_AllQuizzes(new) ==
    LET arrs == { q.arrangement : q \in questions }
        max_arrangement == IF arrs = {} THEN 0 ELSE Max(arrs)
    IN  [new EXCEPT !.arrangement = max_arrangement + 1]

\* The BEFORE INSERT trigger: the new row's arrangement becomes the largest
\* arrangement of its quiz plus one, whatever the statement supplied.
set_question_arrangement(new) ==
    LET arrs == { q.arrangement : q \in QuestionsOfQuiz(new.quiz_id) }
        max_arrangement == IF arrs = {} THEN 0 ELSE Max(arrs)
    IN  [new EXCEPT !.arrangement = max_arrangement + 1]

\* The table without the question_arrangement constraint.
InsertAllowed_NoUnique(new) ==
    /\ new.quiz_id \in DOMAIN quizzes
    /\ new.id \notin QuestionIDs

\* CONSTRAINT question_arrangement UNIQUE (arrangement, quiz_id), the primary
\* key and the foreign key to quizzes.
InsertAllowed(new) ==
    /\ new.quiz_id \in DOMAIN quizzes
    /\ new.id \notin QuestionIDs
    /\ ~\E q \in questions : q.arrangement = new.arrangement /\ q.quiz_id = new.quiz_id

\* uuid.New(): an id no row and no pending row has.
NewID ==
    LET used == QuestionIDs \cup { r.id : r \in BagToSet(inserting) }
    IN  CHOOSE id \in 1..(Cardinality(used) + 1) :
            id \notin used /\ \A j \in 1..(id - 1) : j \in used

\* The modal is rendered whether PostNewQuestion stored the row or not.
ModalResp(new) ==
    [NoResp EXCEPT !.op = "dashboardNewQuestionModal",
                   !.outcome = IF InsertAllowed(new) THEN "stored" ELSE "rejected",
                   !.status = 200, !.quiz = new.quiz_id]

\* dashboardNewQuestionModal, first part: the empty question is built and the
\* trigger of the INSERT reads the quiz's largest arrangement.
newQuestionTrigger(quiz, supplied) ==
    /\ InFlight < MaxInFlight
    /\ Cardinality(questions) + BagCardinality(inserting) < MaxQuestions
    /\ LET newQuestion == [id |-> NewID, quiz_id |-> quiz, arrangement |-> supplied,
                           points |-> DefaultPoints]
       IN  inserting' = inserting (+) SetToBag({set_question_arrangement(newQuestion)})
    /\ UNCHANGED <<users, quizzes, questions, user_answers, now, answering, resp, completed>>

\* dashboardNewQuestionModal, second part: the row is stored unless a
\* constraint rejects it; the handler ignores the error and renders the modal.
newQuestionInsert(new) ==
    /\ BagIn(new, inserting)
    /\ questions' = IF InsertAllowed(new) THEN questions \cup {new} ELSE questions
    /\ resp' = ModalResp(new)
    /\ inserting' = inserting (-) SetToBag({new})
    /\ UNCHANGED <<users, quizzes, user_answers, now, answering, completed>>

\* dashboardNewQuestionModal served with no other insertion in between: the
\* INSERT statement runs its trigger and stores the row in one step.
dashboardNewQuestionModal(quiz, supplied) ==
    /\ Cardinality(questions) + BagCardinality(inserting) < MaxQuestions
    /\ LET newQuestion == [id |-> NewID, quiz_id |-> quiz, arrangement |-> supplied,
                           points |-> DefaultPoints]
           new == set_question_arrangement(newQuestion)
       IN  /\ questions' = IF InsertAllowed(new) THEN questions \cup {new} ELSE questions
           /\ resp' = ModalResp(new)
    /\ UNCHANGED <<users, quizzes, user_answers, now, answering, inserting, completed>>

\* deleteQuiz: soft-deletes and redirects to the dashboard.
deleteQuiz(quiz) ==
    /\ quizzes' = DeleteQuizByID(quiz)
    /\ resp' = [NoResp EXCEPT !.op = "deleteQuiz", !.outcome = "ok", !.status = 200]
    /\ UNCHANGED <<users, questions, user_answers, now, answering, inserting, completed>>

\* ---------------------------------------------------------------- guest play
\* The quizzes GetOpenQuizId may return: published, not deleted, the window
\* holds the clock, and no other such quiz was made available later.
OpenQuizIDs ==
    LET open == { q \in DOMAIN quizzes :
                    /\ quizzes[q].published
                    /\ ~quizzes[q].is_deleted
                    /\ quizzes[q].available_from <= now
                    /\ now < quizzes[q].available_to }
    IN  { q \in open : \A o \in open : quizzes[o].available_from <= quizzes[q].available_from }

\* The summary row with the question's points in place of the points awarded.
SummaryRow_MaxPoints(questionID, answered) ==
    [ QuestionID |-> questionID,
      MaxPoints |-> answered.Question.points,
      ChosenAlternativeID |-> answered.ChosenAnswerID,
      IsCorrect |-> IsAnswerCorrect(answered.Question.id, answered.ChosenAnswerID),
      PointsAwarded |-> answered.Question.points ]

\* The summary row postAnswer builds from the answered question.
SummaryRow(questionID, answered) ==
    [ QuestionID |-> questionID,
      MaxPoints |-> answered.Question.points,
      ChosenAlternativeID |-> answered.ChosenAnswerID,
      IsCorrect |-> IsAnswerCorrect(answered.Question.id, answered.ChosenAnswerID),
      PointsAwarded |-> answered.PointsAwarded ]

\* The comparison left out: any question is taken to be of the open quiz.
IsOtherQuiz_Never(publicQuizId, quizID) == FALSE

\* postAnswer's comparison of the open quiz with the question's quiz.
IsOtherQuiz(publicQuizId, quizID) == publicQuizId # quizID

GuestFailure(outcome, status, qid, aid, quiz, open) ==
    [Failure("postAnswer", outcome, status) EXCEPT
        !.question = qid, !.alternative = aid, !.quiz = quiz, !.open = open]

\* The guest's accepted answer stored in the ledger under the id of no user.
postAnswer_Recording(qid, aid, presentedAtParses) ==
    /\ IF ~presentedAtParses
       THEN resp' = GuestFailure("bad_timestamp", 500, qid, aid, NoID, NoID)
       ELSE IF AnswerError(qid, aid) # "none"
       THEN resp' = GuestFailure(AnswerError(qid, aid), 500, qid, aid, NoID, NoID)
       ELSE LET answered == Answered(qid, aid)
                quiz == answered.Question.quiz_id
            IN  IF OpenQuizIDs = {}
                THEN resp' = GuestFailure("ErrNoOpenQuiz", 500, qid, aid, quiz, NoID)
                ELSE \E publicQuizId \in OpenQuizIDs :
                       IF IsOtherQuiz(publicQuizId, quiz)
                       THEN resp' = GuestFailure("forbidden", 403, qid, aid, quiz, publicQuizId)
                       ELSE LET summaryrow == SummaryRow(qid, answered)
                            IN  resp' = [NoResp EXCEPT
                                   !.op = "postAnswer", !.outcome = "ok", !.status = 200,
                                   !.question = summaryrow.QuestionID,
                                   !.quiz = quiz, !.open = publicQuizId,
                                   !.alternative = summaryrow.ChosenAlternativeID,
                                   !.is_correct = summaryrow.IsCorrect,
                                   !.points = summaryrow.PointsAwarded,
                                   !.max_points = summaryrow.MaxPoints]
    /\ user_answers' =
          IF presentedAtParses /\ AnswerError(qid, aid) = "none"
          THEN user_answers (+) SetToBag({[user_id |-> NoID, answer_alternative_id |-> aid]})
          ELSE user_answers
    /\ UNCHANGED <<users, quizzes, questions, now, answering, inserting, completed>>

\* postAnswer: the guest's answer is scored first, the open quiz resolved after.
postAnswer(qid, aid, presentedAtParses) ==
    /\ IF ~presentedAtParses
       THEN resp' = GuestFailure("bad_timestamp", 500, qid, aid, NoID, NoID)
       ELSE IF AnswerError(qid, aid) # "none"
       THEN resp' = GuestFailure(AnswerError(qid, aid), 500, qid, aid, NoID, NoID)
       ELSE LET answered == Answered(qid, aid)
                quiz == answered.Question.quiz_id
            IN  IF OpenQuizIDs = {}
                THEN resp' = GuestFailure("ErrNoOpenQuiz", 500, qid, aid, quiz, NoID)
                ELSE \E publicQuizId \in OpenQuizIDs :
                       IF IsOtherQuiz(publicQuizId, quiz)
                       THEN resp' = GuestFailure("forbidden", 403, qid, aid, quiz, publicQuizId)
                       ELSE LET summaryrow == SummaryRow(qid, answered)
                            IN  resp' = [NoResp EXCEPT
                                   !.op = "postAnswer", !.outcome = "ok", !.status = 200,
                                   !.question = summaryrow.QuestionID,
                                   !.quiz = quiz, !.open = publicQuizId,
                                   !.alternative = summaryrow.ChosenAlternativeID,
                                   !.is_correct = summaryrow.IsCorrect,
                                   !.points = summaryrow.PointsAwarded,
                                   !.max_points = summaryrow.MaxPoints]
    /\ UNCHANGED <<users, quizzes, questions, user_answers, now, answering, inserting, completed>>

\* GetQuestionByNumberInQuiz: the question of the quiz with that number, no
\* row when the quiz has no such question.
GetQuestionByNumberInQuiz(quiz, n) ==
    LET rows == { q \in QuestionsOfQuiz(quiz) : q.arrangement = n }
    IN  IF rows = {} THEN [err |-> "ErrNoRows", question |-> NoID]
        ELSE [err |-> "none", question |-> (CHOOSE q \in rows : TRUE).id]

\* The comparison left out: any quiz id is taken to be the open quiz.
IsNotTheOpenQuiz_Never(quizId, openQuizId) == FALSE

\* getQuestion's comparison of the quiz asked for with the open quiz.
IsNotTheOpenQuiz(quizId, openQuizId) == quizId # openQuizId

QuestionFailure(outcome, status, quiz, open, n) ==
    [Failure("getQuestion", outcome, status) EXCEPT
        !.quiz = quiz, !.open = open, !.position = n]

\* getQuestion with the error of GetOpenQuizId ignored: without an open quiz
\* the quiz asked for is served.
getQuestion_OpenQuizErrorIgnored(quizId, quizIdParses, currentQuestion) ==
    /\ \E openQuizId \in (IF OpenQuizIDs = {} THEN {quizId} ELSE OpenQuizIDs) :
          IF ~quizIdParses
          THEN resp' = QuestionFailure("bad_quiz_id", 400, NoID, openQuizId, 0)
          ELSE IF IsNotTheOpenQuiz(quizId, openQuizId)
          THEN resp' = QuestionFailure("not_found", 404, quizId, openQuizId, 0)
          ELSE IF currentQuestion < 1
          THEN resp' = QuestionFailure("bad_number", 400, quizId, openQuizId, 0)
          ELSE LET data == GetQuestionByNumberInQuiz(quizId, currentQuestion)
               IN  IF data.err = "ErrNoRows"
                   THEN resp' = QuestionFailure("ErrNoRows", 404, quizId, openQuizId,
                                                currentQuestion)
                   ELSE resp' = [NoResp EXCEPT
                           !.op = "getQuestion", !.outcome = "ok", !.status = 200,
                           !.quiz = quizId, !.open = openQuizId,
                           !.question = data.question, !.position = currentQuestion]
    /\ UNCHANGED <<users, quizzes, questions, user_answers, now, answering, inserting, completed>>

\* getQuestion: the open quiz is resolved first; the quiz asked for must be
\* that quiz and the question number at least 1. A number that does not
\* parse as an unsigned integer is given as -1.
getQuestion(quizId, quizIdParses, currentQuestion) ==
    /\ IF OpenQuizIDs = {}
       THEN resp' = QuestionFailure("ErrNoOpenQuiz", 500, NoID, NoID, 0)
       ELSE \E openQuizId \in OpenQuizIDs :
              IF ~quizIdParses
              THEN resp' = QuestionFailure("bad_quiz_id", 400, NoID, openQuizId, 0)
              ELSE IF IsNotTheOpenQuiz(quizId, openQuizId)
              THEN resp' = QuestionFailure("not_found", 404, quizId, openQuizId, 0)
              ELSE IF currentQuestion < 1
              THEN resp' = QuestionFailure("bad_number", 400, quizId, openQuizId, 0)
              ELSE LET data == GetQuestionByNumberInQuiz(quizId, currentQuestion)
                   IN  IF data.err = "ErrNoRows"
                       THEN resp' = QuestionFailure("ErrNoRows", 404, quizId, openQuizId,
                                                    currentQuestion)
                       ELSE resp' = [NoResp EXCEPT
                               !.op = "getQuestion", !.outcome = "ok", !.status = 200,
                               !.quiz = quizId, !.open = openQuizId,
                               !.question = data.question, !.position = currentQuestion]
    /\ UNCHANGED <<users, quizzes, questions, user_answers, now, answering, inserting, completed>>

\* The flag stored negated.
UpdatePublishedStatusByQuizID_Inverted(id, published) ==
    IF id \in DOMAIN quizzes
    THEN [quizzes EXCEPT ![id].published = ~published]
    ELSE quizzes

\* UpdatePublishedStatusByQuizID: UPDATE quizzes SET published = $1 WHERE id = $2.
UpdatePublishedStatusByQuizID(id, published) ==
    IF id \in DOMAIN quizzes
    THEN [quizzes EXCEPT ![id].published = published]
    ELSE quizzes

\* editQuizPublished: stores the opposite of the status the form reports.
editQuizPublished(quiz, formOn) ==
    /\ quizzes' = UpdatePublishedStatusByQuizID(quiz, ~formOn)
    /\ resp' = [NoResp EXCEPT !.op = "editQuizPublished", !.outcome = "ok", !.status = 200]
    /\ UNCHANGED <<users, questions, user_answers, now, answering, inserting, completed>>

\* Time passes.
Tick ==
    /\ now < MaxTime
    /\ now' = now + 1
    /\ UNCHANGED <<users, quizzes, questions, user_answers, answering, inserting, resp, completed>>

\* ---------------------------------------------------------------- catalog edits
\* UpdateTitleByQuizID: UPDATE quizzes SET title = $1 WHERE id = $2.
UpdateTitleByQuizID(id, title) ==
    IF id \in DOMAIN quizzes
    THEN [quizzes EXCEPT ![id].title = title]
    ELSE quizzes

\* UpdateImageByQuizID: UPDATE quizzes SET image_url = $1 WHERE id = $2.
UpdateImageByQuizID(id, imageURL) ==
    IF id \in DOMAIN quizzes
    THEN [quizzes EXCEPT ![id].image_url = imageURL]
    ELSE quizzes

\* RemoveImageByQuizID: UPDATE quizzes SET image_url = NULL WHERE id = $1.
RemoveImageByQuizID(id) ==
    IF id \in DOMAIN quizzes
    THEN [quizzes EXCEPT ![id].image_url = NoImage]
    ELSE quizzes

\* UpdateActiveStartByQuizID: UPDATE quizzes SET available_from = $1 WHERE id = $2.
UpdateActiveStartByQuizID(id, activeStart) ==
    IF id \in DOMAIN quizzes
    THEN [quizzes EXCEPT ![id].available_from = activeStart]
    ELSE quizzes

\* UpdateActiveEndByQuizID: UPDATE quizzes SET available_to = $1 WHERE id = $2.
UpdateActiveEndByQuizID(id, activeEnd) ==
    IF id \in DOMAIN quizzes
    THEN [quizzes EXCEPT ![id].available_to = activeEnd]
    ELSE quizzes

\* GetQuizzes: the rows WHERE is_deleted = false (their ids).
GetQuizzes == { id \in DOMAIN quizzes : ~quizzes[id].is_deleted }

\* GetQuizzesByPublishStatus: WHERE published = $1 AND is_deleted = false.
GetQuizzesByPublishStatus(published) ==
    { id \in DOMAIN quizzes : quizzes[id].published = published /\ ~quizzes[id].is_deleted }

\* The response of a dashboard request about a quiz.
CatalogResponse(op, outcome, status, quiz) ==
    [NoResp EXCEPT !.op = op, !.outcome = outcome, !.status = status, !.quiz = quiz]

editQuizTitle(quiz, title) ==
    /\ quizzes' = UpdateTitleByQuizID(quiz, title)
    /\ resp' = CatalogResponse("editQuizTitle", "ok", 200, quiz)
    /\ UNCHANGED <<users, questions, user_answers, now, answering, inserting, completed>>

\* editQuizImage: the error of url.Parse is dropped, so a form value that
\* does not parse leaves a nil URL that the handler dereferences; the request
\* ends in the server's recovery before anything is stored.
editQuizImage(quiz, image, imageParses) ==
    /\ IF imageParses
       THEN /\ quizzes' = UpdateImageByQuizID(quiz, image)
            /\ resp' = CatalogResponse("editQuizImage", "ok", 200, quiz)
       ELSE /\ quizzes' = quizzes
            /\ resp' = CatalogResponse("editQuizImage", "panic", 500, quiz)
    /\ UNCHANGED <<users, questions, user_answers, now, answering, inserting, completed>>

deleteQuizImage(quiz) ==
    /\ quizzes' = RemoveImageByQuizID(quiz)
    /\ resp' = CatalogResponse("deleteQuizImage", "ok", 200, quiz)
    /\ UNCHANGED <<users, questions, user_answers, now, answering, inserting, completed>>

\* editQuizActiveStart: a date that does not parse is returned as the error
\* it is, before the update.
editQuizActiveStart(quiz, activeStart, dateParses) ==
    /\ IF dateParses
       THEN /\ quizzes' = UpdateActiveStartByQuizID(quiz, activeStart)
            /\ resp' = CatalogResponse("editQuizActiveStart", "ok", 200, quiz)
       ELSE /\ quizzes' = quizzes
            /\ resp' = CatalogResponse("editQuizActiveStart", "bad_date", 500, quiz)
    /\ UNCHANGED <<users, questions, user_answers, now, answering, inserting, completed>>

editQuizActiveEnd(quiz, activeEnd, dateParses) ==
    /\ IF dateParses
       THEN /\ quizzes' = UpdateActiveEndByQuizID(quiz, activeEnd)
            /\ resp' = CatalogResponse("editQuizActiveEnd", "ok", 200, quiz)
       ELSE /\ quizzes' = quizzes
            /\ resp' = CatalogResponse("editQuizActiveEnd", "bad_date", 500, quiz)
    /\ UNCHANGED <<users, questions, user_answers, now, answering, inserting, completed>>

\* A default quiz that is published from the start.
CreateDefaultQuiz_Published(availableFrom, availableToRead) ==
    [ title |-> DefaultTitle, image_url |-> DefaultImage,
      published |-> TRUE, is_deleted |-> FALSE,
      available_from |-> availableFrom, available_to |-> availableToRead + Week ]

\* CreateDefaultQuiz: the default title and image, unpublished, not deleted.
\* AvailableFrom is time.Now() and AvailableTo is time.Now().Add(24 * 7 *
\* time.Hour): the clock is read once for each field.
CreateDefaultQuiz(availableFrom, availableToRead) ==
    [ title |-> DefaultTitle, image_url |-> DefaultImage,
      published |-> FALSE, is_deleted |-> FALSE,
      available_from |-> availableFrom, available_to |-> availableToRead + Week ]

\* uuid.New(): an id no row has.
NewQuizID == Cardinality(DOMAIN quizzes) + 1

\* CreateQuiz: INSERT INTO quizzes the row as it is given.
CreateQuiz(id, quiz) ==
    [ q \in DOMAIN quizzes \cup {id} |-> IF q = id THEN quiz ELSE quizzes[q] ]

\* postDefaultQuiz: the default quiz is built and inserted. The clock may
\* advance between the two readings CreateDefaultQuiz takes for the window.
postDefaultQuiz ==
    /\ Cardinality(DOMAIN quizzes) < MaxQuizzes
    /\ \E later \in { t \in {now, now + 1} : t <= MaxTime } :
          /\ quizzes' = CreateQuiz(NewQuizID, CreateDefaultQuiz(now, later))
          /\ now' = later
    /\ resp' = CatalogResponse("postDefaultQuiz", "ok", 200, NewQuizID)
    /\ UNCHANGED <<users, questions, user_answers, answering, inserting, completed>>

\* ---------------------------------------------------------------- specifications
\* Participants answer concurrently while questions are added.
Next ==
    \/ \E u \in users, qid \in 0..MaxQuestions, aid \in AlternativeIDs \cup {NoID} :
          postUserAnswerCheck(u, qid, aid)
    \/ \E r \in BagToSet(answering) : postUserAnswerInsert(r)
    \/ \E u \in users, quiz \in QuizIDs \cup {NoID} : getNextQuestion(u, quiz)
    \/ \E quiz \in QuizIDs \cup {NoID}, supplied \in 0..1 :
          dashboardNewQuestionModal(quiz, supplied)

Spec == Init /\ [][Next]_vars

\* The same handlers served one request at a time.
NextSeq ==
    \/ \E u \in users, qid \in 0..MaxQuestions, aid \in AlternativeIDs \cup {NoID} :
          InFlight = 0 /\ postUserAnswerCheck(u, qid, aid)
    \/ \E r \in BagToSet(answering) : postUserAnswerInsert(r)
    \/ \E u \in users, quiz \in QuizIDs \cup {NoID} :
          InFlight = 0 /\ getNextQuestion(u, quiz)
    \/ \E quiz \in QuizIDs \cup {NoID}, supplied \in 0..1 :
          InFlight = 0 /\ dashboardNewQuestionModal(quiz, supplied)
    \/ \E quiz \in QuizIDs : InFlight = 0 /\ deleteQuiz(quiz)

SpecSeq == Init /\ [][NextSeq]_vars

\* The question bank filled from an empty table by concurrent insertions.
InitBank ==
    /\ users = Users
    /\ quizzes = SeedQuizzes
    /\ questions = {}
    /\ user_answers = EmptyBag
    /\ now = 0
    /\ answering = EmptyBag
    /\ inserting = EmptyBag
    /\ resp = NoResp
    /\ completed = {}

NextBank ==
    \/ \E quiz \in QuizIDs \cup {NoID}, supplied \in 0..1 : newQuestionTrigger(quiz, supplied)
    \/ \E new \in BagToSet(inserting) : newQuestionInsert(new)
    \/ \E quiz \in QuizIDs : deleteQuiz(quiz)

SpecBank == InitBank /\ [][NextBank]_vars

\* Guests answer while the catalog is edited and time passes.
NextGuest ==
    \/ \E qid \in 0..MaxQuestions, aid \in AlternativeIDs \cup {NoID}, ok \in BOOLEAN :
          postAnswer(qid, aid, ok)
    \/ \E quiz \in QuizIDs \cup {NoID}, ok \in BOOLEAN, n \in -1..MaxQuestions :
          getQuestion(quiz, ok, n)
    \/ \E quiz \in QuizIDs \cup {NoID}, formOn \in BOOLEAN : editQuizPublished(quiz, formOn)
    \/ \E quiz \in QuizIDs \cup {NoID} : deleteQuiz(quiz)
    \/ Tick

SpecGuest == Init /\ [][NextGuest]_vars

\* The ledger under submissions, quiz deletion, new questions and the removal
\* of user rows.
NextLedger ==
    \/ \E u \in users, qid \in QuestionIDs, aid \in AlternativeIDs :
          postUserAnswerCheck(u, qid, aid)
    \/ \E r \in BagToSet(answering) : postUserAnswerInsert(r)
    \/ \E quiz \in QuizIDs : deleteQuiz(quiz)
    \/ \E quiz \in QuizIDs : dashboardNewQuestionModal(quiz, 0)
    \/ \E u \in users : deleteUserRow(u)

SpecLedger == Init /\ [][NextLedger]_vars

\* Concurrent submissions, well-formed or not.
NextSubmit ==
    \/ \E u \in users, qid \in 0..MaxQuestions, aid \in AlternativeIDs \cup {NoID} :
          postUserAnswerCheck(u, qid, aid)
    \/ \E r \in BagToSet(answering) : postUserAnswerInsert(r)

SpecSubmit == Init /\ [][NextSubmit]_vars

\* Guests answer while authenticated users answer concurrently.
NextVisitors ==
    \/ \E qid \in 0..MaxQuestions, aid \in AlternativeIDs \cup {NoID}, ok \in BOOLEAN :
          postAnswer(qid, aid, ok)
    \/ \E u \in users, qid \in QuestionIDs, aid \in AlternativeIDs :
          postUserAnswerCheck(u, qid, aid)
    \/ \E r \in BagToSet(answering) : postUserAnswerInsert(r)

SpecVisitors == Init /\ [][NextVisitors]_vars

\* One participant plays the quizzes the way the play page does: it asks for
\* the next question, answers the question it was given with one of that
\* question's alternatives, and asks again; once told that a quiz has no more
\* questions it may submit to a question of that quiz again. Other users
\* answer in between.
Participant == CHOOSE u \in Users : \A v \in Users : u <= v

playNextQuestion(quiz) ==
    /\ InFlight = 0
    /\ getNextQuestion(Participant, quiz)

playAnswer(aid) ==
    /\ InFlight = 0
    /\ resp.op = "getNextQuestion" /\ resp.outcome = "ok"
    /\ AlternativeByID(aid).question_id = resp.question
    /\ postUserAnswerCheck(Participant, resp.question, aid)

playResubmit(qid, aid) ==
    /\ InFlight = 0
    /\ resp.op = "getNextQuestion" /\ resp.outcome = "ErrNoMoreQuestions"
    /\ QuestionByID(qid).quiz_id = resp.quiz
    /\ AlternativeByID(aid).question_id = qid
    /\ postUserAnswerCheck(Participant, qid, aid)

\* Another user answers some question in between.
otherAnswer(u, qid, aid) ==
    /\ InFlight = 0
    /\ u # Participant
    /\ postUserAnswerCheck(u, qid, aid)

NextPlay ==
    \/ \E quiz \in QuizIDs \cup {NoID} : playNextQuestion(quiz)
    \/ \E u \in users, qid \in QuestionIDs, aid \in AlternativeIDs : otherAnswer(u, qid, aid)
    \/ \E aid \in AlternativeIDs : playAnswer(aid)
    \/ \E r \in BagToSet(answering) : postUserAnswerInsert(r)
    \/ \E qid \in QuestionIDs, aid \in AlternativeIDs : playResubmit(qid, aid)

SpecPlay == Init /\ [][NextPlay]_vars

TypeOK ==
    /\ \A q \in questions : q.quiz_id \in DOMAIN quizzes
    /\ BagCardinality(user_answers) <= MaxAnswers
    /\ Cardinality(questions) <= MaxQuestions

\* The dashboard edits the catalog, deleted quizzes included.
NextCatalog ==
    \/ \E quiz \in QuizIDs \cup {NoID} : editQuizTitle(quiz, FormTitle)
    \/ \E quiz \in QuizIDs \cup {NoID}, ok \in BOOLEAN : editQuizImage(quiz, DefaultImage, ok)
    \/ \E quiz \in QuizIDs \cup {NoID} : deleteQuizImage(quiz)
    \/ \E quiz \in QuizIDs \cup {NoID}, t \in FormTimes, ok \in BOOLEAN :
          editQuizActiveStart(quiz, t, ok)
    \/ \E quiz \in QuizIDs \cup {NoID}, t \in FormTimes, ok \in BOOLEAN :
          editQuizActiveEnd(quiz, t, ok)
    \/ \E quiz \in QuizIDs \cup {NoID}, formOn \in BOOLEAN : editQuizPublished(quiz, formOn)
    \/ \E quiz \in QuizIDs \cup {NoID} : deleteQuiz(quiz)

SpecCatalog == Init /\ [][NextCatalog]_vars

\* The quizzes made through create-new, the rows after the fixtures'.
CreatedQuizIDs == DOMAIN quizzes \ QuizIDs

\* Quizzes are created, published, unpublished and deleted while time passes.
NextCreate ==
    \/ postDefaultQuiz
    \/ \E quiz \in DOMAIN quizzes \cup {NoID}, formOn \in BOOLEAN :
          editQuizPublished(quiz, formOn)
    \/ \E quiz \in DOMAIN quizzes \cup {NoID} : deleteQuiz(quiz)
    \/ Tick

SpecCreate == Init /\ [][NextCreate]_vars

\* ---------------------------------------------------------------- properties
\* The ledger rows of a user for a question, read off the tables directly.
EntriesOf(ledger, u, qid) ==
    { r \in BagToSet(ledger) :
        /\ r.user_id = u
        /\ AlternativeByID(r.answer_alternative_id).question_id = qid }

HasEntry(ledger, u, qid) == EntriesOf(ledger, u, qid) # {}

RECURSIVE CountRows(_, _)
CountRows(ledger, rows) ==
    IF rows = {} THEN 0
    ELSE LET r == CHOOSE x \in rows : TRUE
         IN  CopiesIn(r, ledger) + CountRows(ledger, rows \ {r})

IsOutcomeOfRequest(r) == r.op = "postAnswer" /\ r.outcome \notin {"bad_timestamp", "not_found", "validation"}

\* C1: in every reachable state the ledger holds at most one row for each
\* (user, question) pair, whatever the interleaving of the submissions.
C1_AtMostOneEntry ==
    \A u \in Users, qid \in QuestionIDs :
        CountRows(user_answers, EntriesOf(user_answers, u, qid)) <= 1

\* C2: served one after the other, a submission to a question the user has
\* already answered fails with ErrQuestionAlreadyAnswered as a 409, stores
\* nothing, and the ledger keeps exactly the one row of the first submission.
C2_SecondSubmissionConflict ==
    [][ \A u \in Users, qid \in QuestionIDs, aid \in AlternativeIDs :
          ( /\ AlternativeByID(aid).question_id = qid
            /\ HasEntry(user_answers, u, qid)
            /\ resp'.op = "postUserAnswer"
            /\ postUserAnswerCheck(u, qid, aid) )
          => /\ resp'.outcome = "ErrQuestionAlreadyAnswered"
             /\ resp'.status = 409
             /\ user_answers' = user_answers
             /\ CountRows(user_answers', EntriesOf(user_answers', u, qid)) = 1 ]_vars

C2_Witness ==
    /\ resp.op = "postUserAnswer"
    /\ resp.outcome = "ErrQuestionAlreadyAnswered"
    /\ BagCardinality(user_answers) = 1

\* C3: a submission is accepted (its row stored, its feedback rendered) only
\* when the ledger has no row yet for its (user, question) pair, so of two
\* concurrent submissions for one pair never both are accepted.
C3_OnlyOneAccepted ==
    [][ \A r \in BagToSet(answering) :
          postUserAnswerInsert(r) => ~HasEntry(user_answers, r.user, r.question) ]_vars

\* C4: NextQuestion never returns a question the user has a ledger row for,
\* and the question it returns belongs to the quiz asked for.
C4_NextIsUnanswered ==
    \A u \in Users, quiz \in QuizIDs \cup {NoID} :
        LET r == NextQuestionInQuiz(u, quiz)
        IN  r.outcome = "ok" =>
              /\ r.question \in QuestionIDs
              /\ QuestionByID(r.question).quiz_id = quiz
              /\ ~HasEntry(user_answers, u, r.question)

C4_Witness ==
    \E u \in Users, quiz \in QuizIDs :
        /\ NextQuestionInQuiz(u, quiz).outcome = "ok"
        /\ \E q \in QuestionsOfQuiz(quiz) : HasEntry(user_answers, u, q.id)

Unanswered(u, quiz) ==
    { q \in QuestionsOfQuiz(quiz) : ~HasEntry(user_answers, u, q.id) }

\* C5: for a quiz that exists and is not deleted and has a question the user
\* has not answered, NextQuestion returns the unanswered question of smallest
\* arrangement, its 1-based position in arrangement order and the number of
\* questions of the quiz.
C5_FirstUnansweredWithPosition ==
    \A u \in Users, quiz \in DOMAIN quizzes :
        (~quizzes[quiz].is_deleted /\ Unanswered(u, quiz) # {}) =>
            LET r == NextQuestionInQuiz(u, quiz)
            IN  /\ r.outcome = "ok"
                /\ \E q \in Unanswered(u, quiz) :
                      /\ q.id = r.question
                      /\ \A o \in Unanswered(u, quiz) : q.arrangement <= o.arrangement
                      /\ r.position = Cardinality({ o \in QuestionsOfQuiz(quiz) :
                                                        o.arrangement <= q.arrangement })
                /\ r.total = Cardinality(QuestionsOfQuiz(quiz))
                /\ 1 <= r.position /\ r.position <= r.total

C5_Witness ==
    \E u \in Users, quiz \in DOMAIN quizzes :
        /\ NextQuestionInQuiz(u, quiz).outcome = "ok"
        /\ NextQuestionInQuiz(u, quiz).position = 3
        /\ NextQuestionInQuiz(u, quiz).total = 3

CorrectAlternative(qid) ==
    CHOOSE a \in answer_alternatives : a.question_id = qid /\ a.correct

C9_ArrangementContiguous ==
    \A quiz \in DOMAIN quizzes :
        { q.arrangement : q \in QuestionsOfQuiz(quiz) } = 1..Cardinality(QuestionsOfQuiz(quiz))

C9_Witness ==
    /\ resp.op = "dashboardNewQuestionModal"
    /\ resp.outcome = "rejected"
    /\ resp.quiz \in DOMAIN quizzes
    /\ Cardinality(QuestionsOfQuiz(resp.quiz)) >= 2

\* C10: a stored question has the arrangement largest-of-its-quiz plus one
\* whatever the request supplied, and no two stored questions of a quiz ever
\* have the same arrangement, however the insertions interleave.
C10_ArrangementUnique ==
    [][ /\ \A new \in questions' \ questions :
             LET arrs == { q.arrangement : q \in QuestionsOfQuiz(new.quiz_id) }
             IN  new.arrangement = (IF arrs = {} THEN 0 ELSE Max(arrs)) + 1
        /\ \A a, b \in questions' :
             (a.quiz_id = b.quiz_id /\ a.arrangement = b.arrangement) => a = b ]_vars

C10_Witness ==
    \E r \in BagToSet(inserting), q \in questions :
        r.quiz_id = q.quiz_id /\ r.arrangement = q.arrangement /\ r.id # q.id

\* The quiz is published, not deleted, and the clock is inside its half-open
\* availability window.
IsPlayable(q) ==
    /\ quizzes[q].published = TRUE
    /\ quizzes[q].is_deleted = FALSE
    /\ now \in quizzes[q].available_from .. (quizzes[q].available_to - 1)

PlayableQuizIDs == { q \in DOMAIN quizzes : IsPlayable(q) }

C13_LedgerAppendOnly ==
    [][ \A r \in BagToSet(user_answers) :
          /\ BagIn(r, user_answers')
          /\ CopiesIn(r, user_answers') >= CopiesIn(r, user_answers) ]_vars

IsMismatched(qid, aid) ==
    \/ ~\E q \in questions : q.id = qid
    \/ ~\E a \in answer_alternatives : a.id = aid
    \/ \E a \in answer_alternatives : a.id = aid /\ a.question_id # qid

\* C15: a submission whose question or alternative does not exist, or whose
\* alternative belongs to another question, is rejected as not-found or
\* validation error, stores no ledger row and starts no insert; no pending
\* insert and no ledger row ever pairs an alternative with a question it is
\* not an alternative of.
C15_MismatchRejectedNothingWritten ==
    [][ /\ ( /\ (resp'.op = "postUserAnswer" \/ answering' # answering)
              /\ \E u \in Users, qid \in 0..MaxQuestions, aid \in AlternativeIDs \cup {NoID} :
                    IsMismatched(qid, aid) /\ postUserAnswerCheck(u, qid, aid) )
            => /\ resp'.op = "postUserAnswer"
               /\ resp'.outcome \in {"not_found", "validation"}
               /\ resp'.status # 200
               /\ user_answers' = user_answers
               /\ answering' = answering
        /\ \A r \in BagToSet(answering') : ~IsMismatched(r.question, r.alternative)
        /\ (resp'.op = "postUserAnswer" /\ resp'.outcome = "ok")
              => ~IsMismatched(resp'.question, resp'.alternative) ]_vars

C15_Witness ==
    /\ resp.op = "postUserAnswer"
    /\ resp.outcome = "validation"
    /\ BagCardinality(user_answers) = 1
    /\ BagCardinality(answering) = 1

\* No row of table quizzes has the id, or the row is soft-deleted.
IsGone(quiz) == quiz \notin DOMAIN quizzes \/ quizzes[quiz].is_deleted = TRUE

\* C16: for a quiz id that has no row and for a soft-deleted quiz NextQuestion
\* signals ErrNoSuchQuiz whatever the user has answered, and getNextQuestion
\* answers 404 without a question; deleteQuiz marks the quiz deleted and no
\* step unmarks it, so this is so ever after.
C16_DeletedQuizNoSuchQuiz ==
    /\ [](\A u \in Users, quiz \in QuizIDs \cup {NoID} :
            IsGone(quiz) => NextQuestionInQuiz(u, quiz).outcome = "ErrNoSuchQuiz")
    /\ []((resp.op = "getNextQuestion" /\ IsGone(resp.quiz)) =>
            (resp.outcome = "ErrNoSuchQuiz" /\ resp.status = 404 /\ resp.question = NoID))
    /\ [][ \A quiz \in DOMAIN quizzes :
              /\ deleteQuiz(quiz) => IsGone(quiz)'
              /\ IsGone(quiz) => IsGone(quiz)' ]_vars

C16_Witness ==
    /\ resp.op = "getNextQuestion"
    /\ resp.outcome = "ErrNoSuchQuiz"
    /\ resp.quiz \in DOMAIN quizzes
    /\ \E u \in Users, q \in QuestionsOfQuiz(resp.quiz) :
          HasEntry(user_answers, u, q.id)

\* Number of ledger rows the user has for the questions of the quiz.
RowsInQuiz(u, quiz) ==
    CountRows(user_answers,
              UNION { EntriesOf(user_answers, u, q.id) : q \in QuestionsOfQuiz(quiz) })

\* C17: a participant who starts with no answers and always answers the
\* question NextQuestion gave is given the questions of a quiz in arrangement
\* order 1, 2, ..., N; each of these submissions is accepted and moves the
\* participant on by one; ErrNoMoreQuestions comes exactly when N rows are
\* stored, and a submission to a question of the quiz after that is refused
\* with ErrQuestionAlreadyAnswered.
C17_PlayedInArrangementOrder ==
    /\ [](\A quiz \in QuizIDs :
            LET r == NextQuestionInQuiz(Participant, quiz)
                n == Cardinality(QuestionsOfQuiz(quiz))
                k == RowsInQuiz(Participant, quiz)
            IN  /\ k <= n
                /\ k < n => /\ r.outcome = "ok"
                            /\ r.position = k + 1
                            /\ QuestionByID(r.question).arrangement = k + 1
                /\ k = n => r.outcome = "ErrNoMoreQuestions")
    /\ []((resp.op = "getNextQuestion" /\ resp.outcome = "ok") =>
            /\ resp.position = RowsInQuiz(Participant, resp.quiz) + 1
            /\ QuestionByID(resp.question).arrangement = resp.position)
    /\ []((resp.op = "getNextQuestion" /\ resp.outcome = "ErrNoMoreQuestions") =>
            /\ RowsInQuiz(Participant, resp.quiz) = resp.total
            /\ resp.total = Cardinality(QuestionsOfQuiz(resp.quiz)))
    /\ [][ /\ \A aid \in AlternativeIDs :
                playAnswer(aid) =>
                   answering' = SetToBag({[user |-> Participant, question |-> resp.question,
                                           alternative |-> aid]})
          /\ \A r \in BagToSet(answering) :
                (r.user = Participant /\ postUserAnswerInsert(r)) =>
                   LET quiz == QuestionByID(r.question).quiz_id
                   IN  /\ resp'.outcome = "ok" /\ resp'.status = 200
                       /\ resp'.question = r.question
                       /\ RowsInQuiz(Participant, quiz)' = RowsInQuiz(Participant, quiz) + 1
          /\ \A qid \in QuestionIDs, aid \in AlternativeIDs :
                playResubmit(qid, aid) =>
                   /\ resp'.outcome = "ErrQuestionAlreadyAnswered"
                   /\ resp'.status = 409
                   /\ user_answers' = user_answers ]_vars

C17_Witness ==
    /\ resp.op = "postUserAnswer"
    /\ resp.outcome = "ErrQuestionAlreadyAnswered"
    /\ RowsInQuiz(Participant, 1) = 2
    /\ completed = {<<Participant, 1, 2>>}

Cause(outcome) ==
    CASE outcome \in {"ErrNoSuchQuiz", "not_found", "ErrNoRows"} -> "not-found"
      [] outcome = "ErrNoMoreQuestions" -> "completed"
      [] outcome = "ErrQuestionAlreadyAnswered" -> "conflict"
      [] outcome = "forbidden" -> "forbidden"
      [] outcome = "validation" -> "validation"
      [] outcome = "foreign_key" -> "persistence"
      [] OTHER -> outcome

IsFailure(r) == r.op # "none" /\ r.outcome # "ok"

\* C19: two failures with different causes never reach the caller with the
\* same status: of two failure responses in a row, those with different
\* causes have different statuses.
C19_FailureKindsDistinct ==
    [][ (IsFailure(resp) /\ IsFailure(resp') /\ Cause(resp.outcome) # Cause(resp'.outcome))
           => resp'.status # resp.status ]_vars

\* C20: an edit-published-status request for a quiz leaves the quiz with the
\* opposite of the published flag it had before (so that two requests in a row
\* restore the flag).
C20_EditPublishedToggles ==
    [][ \A quiz \in QuizIDs :
          ( /\ resp'.op = "editQuizPublished"
            /\ \E formOn \in BOOLEAN : editQuizPublished(quiz, formOn) )
             => quizzes'[quiz].published = ~quizzes[quiz].published ]_vars

C22_SoftDeleteMonotone ==
    [][ \A q \in DOMAIN quizzes :
          /\ q \in DOMAIN quizzes'
          /\ quizzes[q].is_deleted => quizzes'[q].is_deleted
          /\ (resp'.op = "deleteQuiz" /\ deleteQuiz(q))
                => quizzes' = [quizzes EXCEPT ![q].is_deleted = TRUE]
          /\ quizzes'[q].is_deleted
                => /\ ~GetQuizByID(q)'.found
                   /\ q \notin GetQuizzes'
                   /\ q \notin GetQuizzesByPublishStatus(TRUE)'
                   /\ q \notin GetQuizzesByPublishStatus(FALSE)' ]_vars

\* A title edit of a deleted quiz was the last request.
C22_Witness ==
    /\ resp.op = "editQuizTitle" /\ resp.quiz \in QuizIDs
    /\ quizzes[resp.quiz].is_deleted
    /\ quizzes[resp.quiz].title = FormTitle
    /\ quizzes[resp.quiz].image_url = NoImage
    /\ quizzes[resp.quiz].available_from = MaxTime
    /\ quizzes[resp.quiz].published

\* The step stores a new quiz.
IsCreation == resp'.op = "postDefaultQuiz" /\ DOMAIN quizzes' # DOMAIN quizzes

\* The flag of a created quiz goes from unpublished, or from no row, to published.
GetsPublished(q) ==
    /\ quizzes'[q].published
    /\ q \in DOMAIN quizzes => ~quizzes[q].published

\* C23 as stated: a quiz created through create-new starts unpublished and
\* not deleted with available_to = available_from + 7 days, is not open right
\* after creation, and gets published, which it must be to be open, only by
\* an edit-published-status request.
C23_CreatedQuizExactWeek ==
    [][ /\ IsCreation
           => LET quiz == quizzes'[resp'.quiz]
              IN  /\ ~quiz.published /\ ~quiz.is_deleted
                  /\ quiz.available_to = quiz.available_from + Week
                  /\ resp'.quiz \notin OpenQuizIDs'
        /\ \A q \in CreatedQuizIDs' :
              /\ q \in OpenQuizIDs' => quizzes'[q].published
              /\ GetsPublished(q) => resp'.op = "editQuizPublished" ]_vars

\* C23, amended: the same, with the window starting at the time of the
\* request and ending 7 days after a reading of the clock taken during the
\* request, so at least 7 days after it starts.
C23_CreatedQuizUnpublished ==
    [][ /\ IsCreation
           => LET quiz == quizzes'[resp'.quiz]
              IN  /\ ~quiz.published /\ ~quiz.is_deleted
                  /\ quiz.available_from = now
                  /\ quiz.available_to >= quiz.available_from + Week
                  /\ quiz.available_to <= now' + Week
                  /\ resp'.quiz \notin OpenQuizIDs'
        /\ \A q \in CreatedQuizIDs' :
              /\ q \in OpenQuizIDs' => quizzes'[q].published
              /\ GetsPublished(q) => resp'.op = "editQuizPublished" ]_vars

\* A created quiz is open after the edit-published-status request.
C23_Witness ==
    /\ resp.op = "editQuizPublished"
    /\ \E q \in CreatedQuizIDs :
          /\ q \in OpenQuizIDs
          /\ quizzes[q].available_to > quizzes[q].available_from + Week

====
